---- MODULE Spec2Model ----
(***************************************************************************)
(* Tool-dispatch and connection-lifecycle core of the mysql-aqara MCP      *)
(* server (the stdio server of src/unnamed/part_003, lines 302-789).       *)
(*                                                                         *)
(* The server is one Node.js process.  An `await` on the MySQL client      *)
(* (getConnection, execute) suspends the handler until the client settles  *)
(* the call, and the continuations of other handlers run meanwhile: each   *)
(* handler is cut into the segments between these awaits and each segment  *)
(* is one atomic action.  The await of the auto-connect (line 723) is kept *)
(* as such a point too, since the switch that follows reads `pool`.  The   *)
(* awaits after which the handler only returns the operation's result read *)
(* no shared state and are part of the segment before them.  The MySQL     *)
(* client (mysql2) is the environment: each of its calls (createPool,      *)
(* getConnection, execute) either succeeds or fails, chosen                *)
(* nondeterministically.  The MySQL servers behind it hold one table per   *)
(* host; a server may reject any statement, and accepts one only when the  *)
(* table's state allows it.                                                *)
(*                                                                         *)
(* The programs around the server have specifications of their own, each   *)
(* over one variable: the launcher scripts (LauncherSpec), the pool as its *)
(* options make it queue callers (SessionsSpec), the older connectDb       *)
(* variant (VariantSpec) and the way credentials reach the server          *)
(* (HandedSpec).                                                           *)
(***************************************************************************)
EXTENDS Integers, Sequences, FiniteSets, TLC

VARIABLES
  proc,        \* "starting" | "running" | "exited": the server process
  exitBy,      \* what ended the process: "none" | "transport" | "operation" | "signal"
  env,         \* process.env as getConfigFromEnv reads it
  pool,        \* `let pool`: 0 is null, otherwise an index into pools
  dbConfig,    \* `let dbConfig`: NoConfig is null
  pools,       \* every pool object mysql.createPool has returned, in order
  startup,     \* startServer's own connect: "none" | "skipped" | "cp_wait" | "done"
  startupResult, \* what that createConnectionPool call returned
  engine,      \* the MySQL servers: per host, the state of the table the tools work on
  reqs,        \* the tool-call requests received so far, each with its handler's state
  responses,   \* the responses the handler has returned, in order
  overlapped,  \* history: a handler started while another was in progress
  launcher,    \* a launcher script's process, with the child process it spawns
  sessions,    \* a mysql2 pool as its options make it serve getConnection callers
  variant,     \* the older Node.js variant's `pool`, with its connectDb calls
  handed       \* run.js: the configuration sources and the child's environment

\* The variables of the stdio server.
server == <<proc, exitBy, env, pool, dbConfig, pools, startup, startupResult,
            engine, reqs, responses, overlapped>>

\* The variables of the programs around it, each with a specification of its own.
around == <<launcher, sessions, variant, handed>>

vars == <<proc, exitBy, env, pool, dbConfig, pools, startup, startupResult,
          engine, reqs, responses, overlapped, launcher, sessions, variant,
          handed>>

-----------------------------------------------------------------------------
(* Bounds *)

\* Number of tool-call requests a run receives.
MaxReq == 2

-----------------------------------------------------------------------------
(* Values *)

\* A connection configuration {host, user, password, database}; "" stands
\* for a field that is absent or empty (both are falsy in `!config.host`).
CfgA == [host |-> "db1", user |-> "root", password |-> "pw", database |-> "app"]
CfgB == [host |-> "db2", user |-> "root", password |-> "pw", database |-> ""]
CfgNoPassword == [host |-> "db1", user |-> "root", password |-> "", database |-> "app"]
CfgNoHost == [host |-> "", user |-> "root", password |-> "pw", database |-> "app"]
CfgNoUser == [host |-> "db1", user |-> "", password |-> "pw", database |-> "app"]
CfgEmpty == [host |-> "", user |-> "", password |-> "", database |-> ""]
NoConfig == [host |-> "null", user |-> "null", password |-> "null", database |-> "null"]

\* The environments the process may be started in.
Environments == {CfgA, CfgNoPassword, CfgEmpty}

\* No result yet.
NoResult == [none |-> TRUE]

\* Error texts of the MySQL client.
CreatePoolError == "Invalid connection options"
ConnectError == "connect ECONNREFUSED"
EngineError == "ER_PARSE_ERROR: You have an error in your SQL syntax"
NotIterableError == "columns is not iterable"

ToolNames == {"connect_db", "create_or_modify_table", "query", "execute",
              "list_tables", "describe_table"}

StatementTools == ToolNames \ {"connect_db"}

Column(n, t) == [name |-> n, type |-> t]

\* The statement texts of the query and execute requests.
SelectSql == <<"SELECT x FROM t WHERE id = ?">>
InsertSql == <<"INSERT INTO t(x) VALUES (?)">>

\* request.params of the tool calls a run may receive.
Requests ==
  { [name |-> "connect_db", arguments |-> CfgA],
    [name |-> "connect_db", arguments |-> CfgB],
    [name |-> "connect_db", arguments |-> CfgNoPassword],
    [name |-> "connect_db", arguments |-> CfgNoHost],
    [name |-> "connect_db", arguments |-> CfgNoUser],
    [name |-> "query", arguments |-> [sql |-> SelectSql, params |-> <<"1">>]],
    [name |-> "query", arguments |-> [sql |-> SelectSql, params |-> <<"1; DROP TABLE t">>]],
    [name |-> "execute", arguments |-> [sql |-> InsertSql, params |-> <<"5">>]],
    [name |-> "list_tables", arguments |-> [none |-> TRUE]],
    [name |-> "describe_table", arguments |-> [table |-> "t"]],
    [name |-> "describe_table", arguments |-> [table |-> "t; DROP TABLE t"]],
    [name |-> "create_or_modify_table",
     arguments |-> [table_name |-> "t",
                    columns |-> <<Column("x", "INT"), Column("y", "TEXT")>>]],
    [name |-> "create_or_modify_table", arguments |-> [table_name |-> "t"]],
    [name |-> "drop_database", arguments |-> [none |-> TRUE]] }

Has(args, k) == k \in DOMAIN args

-----------------------------------------------------------------------------
(* getConfigFromEnv and the results of the operations *)

getConfigFromEnv == env

\* Mutant of Complete: the database is required too.
Complete_requiresDatabase(config) ==
  config.host # "" /\ config.user # "" /\ config.password # "" /\ config.database # ""

\* `config.host && config.user && config.password`
Complete(config) == config.host # "" /\ config.user # "" /\ config.password # ""

MissingParameters == [success |-> FALSE, error |-> "Missing database connection parameters"]
ConnectedResult == [success |-> TRUE, message |-> "Connected to database successfully"]

\* Mutant of NotConnected: the result of the older variant (lines 226-228).
NotConnected_olderVariant ==
  [success |-> FALSE, message |-> "Database not connected. Use connect_db first."]

\* Lines 393, 438, 460, 482, 506.
NotConnected == [success |-> FALSE, error |-> "Database not connected"]

\* Mutant of ErrorResult: the failure of the older variant (line 220), which
\* puts the text under `message`.
ErrorResult_olderVariant(message) == [success |-> FALSE, message |-> message]

\* Mutant of ErrorResult: the catch blocks return a text of their own.
ErrorResult_generic(message) == [success |-> FALSE, error |-> "Database error"]

\* The catch blocks of the operations: `{ success: false, error: error.message }`.
ErrorResult(message) == [success |-> FALSE, error |-> message]


\* JSON.stringify(result): the object's own fields, in order; a field whose
\* value is undefined is dropped.  Undefined is modelled by the field's absence,
\* so the text carries exactly the fields of the result.
JSONstringify(result) == [k \in DOMAIN result |-> result[k]]

\* The handler's return value for an operation's result (lines 730, 738, ...).
ResultEnvelope(result) == [isError |-> FALSE, text |-> JSONstringify(result)]

\* Mutant of CatchEnvelope: the catch block forgets `isError: true`.
CatchEnvelope_noErrorFlag(message) ==
  [isError |-> FALSE, text |-> [raw |-> <<"Error: ">> \o message]]

\* The handler's catch block (lines 759-765): `Error: ${error.message}`.
CatchEnvelope(message) == [isError |-> TRUE, text |-> [raw |-> <<"Error: ">> \o message]]

\* McpError's message, as the SDK builds it: `MCP error ${code}: ${message}`.
MethodNotFound == "-32601"
McpErrorMessage(code, message) == <<"MCP error ", code, ": ">> \o message

UnknownToolMessage(toolName) == McpErrorMessage(MethodNotFound, <<"Unknown tool: ", toolName>>)

-----------------------------------------------------------------------------
(* The pool objects *)

connectionLimit == 10

\* mysql.createPool(config), called by `by` (0: startServer, r: request r).
NewPool(config, by) ==
  [config |-> config, by |-> by, ended |-> FALSE, tested |-> FALSE, out |-> 0]

LivePools == {p \in DOMAIN pools : ~pools[p].ended}

\* Mutant of AssignedAtCreate: the new pool is kept in a local until the
\* liveness check is over, and `pool` is not assigned before the await.
AssignedAtCreate_afterCheck(created) == pool

\* `pool = mysql.createPool(...)`, line 364: the value of `pool` when
\* createConnectionPool reaches its first await.
AssignedAtCreate(created) == created

\* The synchronous part of createConnectionPool(config), lines 357-375: what it
\* has done when it returns or reaches `await pool.getConnection()`.
CreatePoolOutcomes(config) ==
  IF ~Complete(config)
  THEN {[kind |-> "returned", result |-> MissingParameters]}
  ELSE {[kind |-> "returned", result |-> ErrorResult(CreatePoolError)],
        [kind |-> "awaiting", result |-> NoResult]}

-----------------------------------------------------------------------------
(* The MySQL servers *)

Hosts == {"db1", "db2"}

\* The table the statements of the requests name.
TableName == "t"

\* Mutant of NoTable: a DROP leaves the table and its rows in place.
NoTable_kept == [exists |-> TRUE, columns |-> <<Column("x", "INT")>>, rows |-> 1]

NoTable == [exists |-> FALSE, columns |-> <<>>, rows |-> 0]

\* The table as the servers hold it when the process starts: it has a row.
TableWithRows == [exists |-> TRUE, columns |-> <<Column("x", "INT")>>, rows |-> 1]

\* The engine's reading of the column list of a CREATE TABLE: the definitions
\* separated by ", ", each starting with the column's name and type.
RECURSIVE SplitDefs(_)
SplitDefs(tokens) ==
  IF tokens = <<>> THEN <<>>
  ELSE LET seps == {k \in DOMAIN tokens : tokens[k] = ", "}
           k == IF seps = {} THEN Len(tokens) + 1
                ELSE CHOOSE i \in seps : \A j \in seps : i <= j
       IN <<SubSeq(tokens, 1, k - 1)>>
          \o (IF k > Len(tokens) THEN <<>>
              ELSE SplitDefs(SubSeq(tokens, k + 1, Len(tokens))))

ParsedColumns(sql) ==
  LET defs == SplitDefs(SubSeq(sql, 4, Len(sql) - 1))
  IN [i \in DOMAIN defs |-> Column(defs[i][1], defs[i][3])]

Rejected(tbl) == [ok |-> FALSE, error |-> EngineError, table |-> tbl]
Accepted(tbl) == [ok |-> TRUE, error |-> "", table |-> tbl]

\* What a server may answer a statement with, and the table afterwards.  It may
\* reject any statement; it accepts a CREATE TABLE only when the table does not
\* exist, a statement reading or writing the table only when it does, and no
\* statement it cannot parse.
EngineOutcomes(statement, tbl) ==
  LET sql == statement.sql
      accepted ==
        CASE sql = <<"DROP TABLE IF EXISTS ", TableName>> -> {Accepted(NoTable)}
          [] Len(sql) > 4 /\ SubSeq(sql, 1, 3) = <<"CREATE TABLE ", TableName, " (">>
             /\ sql[Len(sql)] = ")" /\ ~tbl.exists ->
               {Accepted([exists |-> TRUE, columns |-> ParsedColumns(sql), rows |-> 0])}
          [] sql = <<"DESCRIBE ", TableName>> /\ tbl.exists -> {Accepted(tbl)}
          [] sql = <<"SHOW TABLES">> -> {Accepted(tbl)}
          [] sql = SelectSql /\ tbl.exists -> {Accepted(tbl)}
          [] sql = InsertSql /\ tbl.exists -> {Accepted([tbl EXCEPT !.rows = @ + 1])}
          [] OTHER -> {}
  IN {Rejected(tbl)} \cup accepted

-----------------------------------------------------------------------------
(* The programs around the server, while they are not running *)

NoLauncher == [kind |-> "none"]
NoSessions == [limit |-> 0]
NoVariant == [pc |-> "none"]
NoHanded == [pc |-> "none"]

-----------------------------------------------------------------------------
(* Initial state *)

\* The stdio server after its module has been loaded (lines 302-336).
ServerInit ==
  /\ proc = "starting"
  /\ exitBy = "none"
  /\ env \in Environments
  /\ pool = 0
  /\ dbConfig = NoConfig
  /\ pools = <<>>
  /\ startup = "none"
  /\ startupResult = NoResult
  /\ engine = [h \in Hosts |-> TableWithRows]
  /\ reqs = <<>>
  /\ responses = <<>>
  /\ overlapped = FALSE

\* The stdio server on its own: the programs around it are not running.
Init ==
  /\ ServerInit
  /\ launcher = NoLauncher
  /\ sessions = NoSessions
  /\ variant = NoVariant
  /\ handed = NoHanded

\* Connection attempts made with the environment's credentials so far.
EnvAttemptsByStartup == IF startup \in {"cp_wait", "done"} THEN 1 ELSE 0

RECURSIVE SumEnvAttempts(_)
SumEnvAttempts(n) == IF n = 0 THEN 0 ELSE reqs[n].envAttempts + SumEnvAttempts(n - 1)

EnvAttempts == EnvAttemptsByStartup + SumEnvAttempts(Len(reqs))

-----------------------------------------------------------------------------
(* startServer, lines 768-783 *)

\* server.connect(transport) fails: the catch block calls process.exit(1).
StartServerFails ==
  /\ proc = "starting"
  /\ proc' = "exited"
  /\ exitBy' = "transport"
  /\ UNCHANGED <<env, pool, dbConfig, pools, startup, startupResult, engine,
                 reqs, responses, overlapped>>
  /\ UNCHANGED around

\* Mutant of StartupHasCredentials: startServer leaves connecting to the
\* first request.
StartupHasCredentials_lazy == FALSE

\* Line 776: `envConfig.host && envConfig.user && envConfig.password`.
StartupHasCredentials == Complete(getConfigFromEnv)

\* server.connect(transport) succeeds and startServer goes on, in the same
\* turn of the event loop, to its own createConnectionPool(envConfig).
StartServer ==
  /\ proc = "starting"
  /\ proc' = "running"
  /\ IF StartupHasCredentials
     THEN \E o \in CreatePoolOutcomes(getConfigFromEnv) :
            IF o.kind = "returned"
            THEN /\ startup' = "done"
                 /\ startupResult' = o.result
                 /\ UNCHANGED <<pool, pools>>
            ELSE /\ startup' = "cp_wait"
                 /\ startupResult' = NoResult
                 /\ pools' = Append(pools, NewPool(getConfigFromEnv, 0))
                 /\ pool' = AssignedAtCreate(Len(pools) + 1)
     ELSE /\ startup' = "skipped"
          /\ startupResult' = NoResult
          /\ UNCHANGED <<pool, pools>>
  /\ UNCHANGED <<exitBy, env, dbConfig, engine, reqs, responses, overlapped>>
  /\ UNCHANGED around

\* The pool startServer's createConnectionPool created.
StartupPool == CHOOSE p \in DOMAIN pools : pools[p].by = 0

\* `await pool.getConnection()` of the startup connect resolves (lines 375-381).
StartupConnected ==
  /\ startup = "cp_wait"
  /\ pools[StartupPool].out < connectionLimit
  /\ startup' = "done"
  /\ startupResult' = ConnectedResult
  /\ pools' = [pools EXCEPT ![StartupPool].tested = TRUE]
  /\ dbConfig' = pools[StartupPool].config
  /\ UNCHANGED <<proc, exitBy, env, pool, engine, reqs, responses, overlapped>>
  /\ UNCHANGED around

\* Mutant of PoolAfterCatch: the catch block discards the pool.
PoolAfterCatch_reset(current) == 0

\* createConnectionPool's catch block (lines 382-385) logs and returns the
\* error: `pool` keeps its current value, the one line 364 gave it.
PoolAfterCatch(current) == current

\* ... or rejects (lines 382-385).
StartupConnectFails ==
  /\ startup = "cp_wait"
  /\ startup' = "done"
  /\ startupResult' = ErrorResult(ConnectError)
  /\ pool' = PoolAfterCatch(pool)
  /\ UNCHANGED <<proc, exitBy, env, dbConfig, pools, engine, reqs, responses,
                 overlapped>>
  /\ UNCHANGED around


-----------------------------------------------------------------------------
(* The CallTool request handler, lines 711-766 *)

\* The handler's state for a request just received.  pc is the await the
\* handler is suspended at; the other fields are its locals and its history.
NewRequest(request) ==
  [name |-> request.name,
   arguments |-> request.arguments,
   pc |-> "start",
   poolAtStart |-> pool,          \* history: `pool` when the handler started
   envAttemptsBefore |-> EnvAttempts, \* history: environment attempts made before it
   envAttempts |-> 0,             \* history: createConnectionPool(envConfig) calls it made
   acResult |-> NoResult,         \* what the auto-connect returned (the handler drops it)
   cpPool |-> 0,                  \* the pool its createConnectionPool call created
   opInvoked |-> FALSE,           \* history: the switch called an operation
   opPool |-> 0,                  \* the pool the operation called getConnection() on
   held |-> FALSE,                \* `connection` is set: a session is checked out
   sent |-> <<>>,                 \* the statements it passed to connection.execute
   rejected |-> "",               \* history: the message of the error the engine threw
   result |-> NoResult]           \* the operation's return value

Put(r, rec) == IF r > Len(reqs) THEN Append(reqs, rec) ELSE [reqs EXCEPT ![r] = rec]

\* Mutant of Returned: the catch block rethrows, so an error gets no response.
Returned_rethrowsErrors(r, envelope) ==
  IF envelope.isError THEN responses
  ELSE Append(responses, [id |-> r, envelope |-> envelope])

\* The handler returns `envelope` for request r: the SDK sends it as the response.
Returned(r, envelope) == Append(responses, [id |-> r, envelope |-> envelope])

\* The operation called by the switch has returned `result`: the handler resumes
\* in the same turn of the event loop and returns it as the response's text
\* (lines 730, 738, 742, 746, 750, 754).
Finish(r, rec, result) ==
  /\ reqs' = Put(r, [rec EXCEPT !.pc = "done", !.result = result])
  /\ responses' = Returned(r, ResultEnvelope(result))

\* Mutant of Fatal: an operation's catch block ends the process, as
\* startServer's does.
Fatal_exitsOnError(result) == "error" \in DOMAIN result

\* Whether an operation's result ends the process.  Every catch block of the
\* operations (lines 382-385, 425-427, 447-449, 469-471, 493-495, 515-517)
\* returns the failure; none rethrows it or calls process.exit.
Fatal(result) == FALSE

\* The process after a segment of request r's handler has run.
HandlerProcess(r) ==
  LET fatal == reqs'[r].pc = "done" /\ Fatal(reqs'[r].result)
  IN /\ proc' = IF fatal THEN "exited" ELSE proc
     /\ exitBy' = IF fatal THEN "operation" ELSE exitBy
     /\ UNCHANGED <<env, startup, startupResult>>
     /\ UNCHANGED around

\* Mutant of NeedsAutoConnect: the `!pool` test is missing.
NeedsAutoConnect_ignoresPool(toolName) == toolName # "connect_db"

\* Mutant of NeedsAutoConnect: the tool name is looked up first, and only a
\* known tool gets the auto-connect.
NeedsAutoConnect_knownToolsOnly(toolName) == pool = 0 /\ toolName \in StatementTools

\* Line 719: `!pool && toolName !== 'connect_db'`.
NeedsAutoConnect(toolName) == pool = 0 /\ toolName # "connect_db"

\* The synchronous beginning of createConnectionPool called by request r with
\* `config`; `auto` tells the auto-connect (line 723) from connect_db (line 729).
CreateConnectionPoolBegin(r, rec, config, auto) ==
  \E o \in CreatePoolOutcomes(config) :
    IF o.kind = "returned"
    THEN /\ IF auto
            THEN /\ reqs' = Put(r, [rec EXCEPT !.pc = "ac_ret", !.acResult = o.result])
                 /\ UNCHANGED responses
            ELSE Finish(r, rec, o.result)
         /\ UNCHANGED <<pool, pools>>
    ELSE /\ pools' = Append(pools, NewPool(config, r))
         /\ pool' = AssignedAtCreate(Len(pools) + 1)
         /\ reqs' = Put(r, [rec EXCEPT !.pc = IF auto THEN "ac_wait" ELSE "cp_wait",
                                       !.cpPool = Len(pools) + 1])
         /\ UNCHANGED responses

\* Mutant of FirstStatement: query and execute write the parameter values into
\* the statement text.
FirstStatement_interpolates(rec) ==
  [sql |-> IF rec.name \in {"query", "execute"} /\ Has(rec.arguments, "params")
           THEN rec.arguments.sql \o rec.arguments.params
           ELSE <<"SHOW TABLES">>,
   params |-> <<>>]

\* The first statement an operation passes to connection.execute.
FirstStatement(rec) ==
  CASE rec.name = "query" ->
         [sql |-> rec.arguments.sql,
          params |-> IF Has(rec.arguments, "params") THEN rec.arguments.params ELSE <<>>]
    [] rec.name = "execute" ->
         [sql |-> rec.arguments.sql,
          params |-> IF Has(rec.arguments, "params") THEN rec.arguments.params ELSE <<>>]
    [] rec.name = "list_tables" -> [sql |-> <<"SHOW TABLES">>, params |-> <<>>]
    [] rec.name = "describe_table" ->
         [sql |-> <<"DESCRIBE ", rec.arguments.table>>, params |-> <<>>]
    [] rec.name = "create_or_modify_table" ->
         [sql |-> <<"DROP TABLE IF EXISTS ", rec.arguments.table_name>>, params |-> <<>>]

\* The beginning of an operation other than connect (lines 392-398, 437-443, ...).
OperationBegin(r, rec) ==
  /\ IF pool = 0
     THEN Finish(r, [rec EXCEPT !.opInvoked = TRUE], NotConnected)
     ELSE /\ reqs' = Put(r, [rec EXCEPT !.pc = "op_conn", !.opInvoked = TRUE,
                                        !.opPool = pool])
          /\ UNCHANGED responses
  /\ UNCHANGED <<pool, pools>>

\* The switch on the tool name, lines 727-758, with the catch block for the
\* McpError the default branch throws.
Switch(r, rec) ==
  IF rec.name = "connect_db"
  THEN CreateConnectionPoolBegin(r, rec, rec.arguments, FALSE)
  ELSE IF rec.name \in StatementTools
  THEN OperationBegin(r, rec)
  ELSE /\ reqs' = Put(r, [rec EXCEPT !.pc = "done"])
       /\ responses' = Returned(r, CatchEnvelope(UnknownToolMessage(rec.name)))
       /\ UNCHANGED <<pool, pools>>

InProgress == {r \in DOMAIN reqs : reqs[r].pc # "done"}

\* A tool call arrives and the handler runs to its first await (lines 712-729).
CallTool ==
  /\ proc = "running"
  /\ Len(reqs) < MaxReq
  /\ \E request \in Requests :
       LET r == Len(reqs) + 1
           rec == NewRequest(request)
       IN IF NeedsAutoConnect(rec.name)
          THEN IF Complete(getConfigFromEnv)
               THEN CreateConnectionPoolBegin(r, [rec EXCEPT !.envAttempts = 1],
                                              getConfigFromEnv, TRUE)
               ELSE Switch(r, rec)
          ELSE Switch(r, rec)
  /\ overlapped' = (overlapped \/ InProgress # {})
  /\ HandlerProcess(Len(reqs) + 1)
  /\ UNCHANGED <<dbConfig, engine>>


\* Request r's handler is suspended at the await `at`, in a running process.
Suspended(r, at) == proc = "running" /\ reqs[r].pc = at

\* What a continuation of request r's handler leaves of the process.
Unchanged_process(r) ==
  /\ HandlerProcess(r)
  /\ UNCHANGED overlapped

\* `await pool.getConnection()` of request r's createConnectionPool resolves:
\* conn.release(), dbConfig = config, return success (lines 375-381).
LivenessPasses(r, auto) ==
  LET rec == reqs[r]
      p == rec.cpPool
  IN /\ pools[p].out < connectionLimit
     /\ pools' = [pools EXCEPT ![p].tested = TRUE]
     /\ dbConfig' = pools[p].config
     /\ IF auto
        THEN /\ reqs' = [reqs EXCEPT ![r] =
                           [rec EXCEPT !.pc = "ac_ret", !.acResult = ConnectedResult]]
             /\ UNCHANGED responses
        ELSE Finish(r, rec, ConnectedResult)
     /\ UNCHANGED pool

\* ... or rejects: the catch block returns the error's message (lines 382-385).
LivenessFails(r, auto) ==
  LET rec == reqs[r]
  IN /\ IF auto
        THEN /\ reqs' = [reqs EXCEPT ![r] =
                           [rec EXCEPT !.pc = "ac_ret", !.acResult = ErrorResult(ConnectError)]]
             /\ UNCHANGED responses
        ELSE Finish(r, rec, ErrorResult(ConnectError))
     /\ pool' = PoolAfterCatch(pool)
     /\ UNCHANGED <<pools, dbConfig>>

\* The liveness check of a connect_db call settles.
ConnectSettles(r) ==
  /\ Suspended(r, "cp_wait")
  /\ (LivenessPasses(r, FALSE) \/ LivenessFails(r, FALSE))
  /\ UNCHANGED engine
  /\ Unchanged_process(r)

\* The liveness check of an auto-connect settles.
AutoConnectSettles(r) ==
  /\ Suspended(r, "ac_wait")
  /\ (LivenessPasses(r, TRUE) \/ LivenessFails(r, TRUE))
  /\ UNCHANGED engine
  /\ Unchanged_process(r)

\* `await createConnectionPool(envConfig)` (line 723) is over; its result is
\* dropped and the handler goes on to the switch.
AfterAutoConnect(r) ==
  /\ Suspended(r, "ac_ret")
  /\ Switch(r, reqs[r])
  /\ UNCHANGED <<dbConfig, engine>>
  /\ Unchanged_process(r)

\* Mutant of Release: the `finally` blocks release nothing.
Release_missing(p) == pools

\* connection.release() of the `finally` blocks.
Release(p) == [pools EXCEPT ![p].out = pools[p].out - 1]

\* The rows the engine answers a statement with.
EngineRows == <<[x |-> "5"]>>
EngineTables == <<[Tables_in_app |-> "t"]>>
EngineColumns == <<[Field |-> "x", Type |-> "int"]>>
EngineAffectedRows == 1

\* `rows.map(row => Object.values(row)[0])`, line 490.
FirstValues(rows) == [i \in DOMAIN rows |-> rows[i].Tables_in_app]

\* The value an operation returns when its statement succeeded.
SuccessResult(rec) ==
  CASE rec.name = "query" -> [success |-> TRUE, results |-> EngineRows]
    [] rec.name = "execute" -> [success |-> TRUE, affected_rows |-> EngineAffectedRows]
    [] rec.name = "list_tables" -> [success |-> TRUE, tables |-> FirstValues(EngineTables)]
    [] rec.name = "describe_table" -> [success |-> TRUE, columns |-> EngineColumns]
    [] rec.name = "create_or_modify_table" ->
         [success |-> TRUE,
          message |-> <<"Table ", rec.arguments.table_name, " created/modified successfully">>]

\* Mutant of ConnectionPoolOf: the operation looks `pool` up again at each use.
ConnectionPoolOf_current(rec) == pool

\* The pool the operation's local `connection` was checked out of (lines 398,
\* 443, 465, 487, 511): the one `pool` named when getConnection() was called.
ConnectionPoolOf(rec) == rec.opPool

\* connection.execute(sql, params): what the engine receives, and the pool
\* whose session carries it.
Execute(rec, statement) ==
  [sql |-> statement.sql, params |-> statement.params, on |-> ConnectionPoolOf(rec)]

\* `await pool.getConnection()` of an operation settles (lines 398, 443, ...):
\* with a session the first statement is passed to connection.execute; a
\* rejection goes to the catch block with `connection` undefined.
GetConnectionSettles(r) ==
  LET rec == reqs[r]
      p == rec.opPool
  IN /\ Suspended(r, "op_conn")
     /\ \/ /\ pools[p].out < connectionLimit
           /\ pools' = [pools EXCEPT ![p].out = pools[p].out + 1]
           /\ reqs' = [reqs EXCEPT ![r] =
                         [rec EXCEPT !.pc = IF rec.name = "create_or_modify_table"
                                            THEN "op_drop" ELSE "op_exec",
                                     !.held = TRUE,
                                     !.sent = <<Execute(rec, FirstStatement(rec))>>]]
           /\ UNCHANGED responses
        \/ /\ Finish(r, rec, ErrorResult(ConnectError))
           /\ UNCHANGED pools
     /\ UNCHANGED <<pool, dbConfig, engine>>
     /\ Unchanged_process(r)

\* The statement whose `await connection.execute(...)` is pending, and the
\* server it went to.
Statement(rec) == rec.sent[Len(rec.sent)]
HostOf(rec) == pools[Statement(rec).on].config.host

\* The pending execute settles with the engine's answer `o`: the operation
\* returns its success value, or its catch block returns the message of the
\* error the engine threw; the finally block releases the session.
Settled(r, rec, o) ==
  IF o.ok
  THEN Finish(r, [rec EXCEPT !.held = FALSE], SuccessResult(rec))
  ELSE Finish(r, [rec EXCEPT !.held = FALSE, !.rejected = o.error], ErrorResult(o.error))

\* `await connection.execute(...)` of query, execute, list_tables or
\* describe_table settles; the finally block releases the session.
ExecuteSettles(r) ==
  LET rec == reqs[r]
  IN /\ Suspended(r, "op_exec")
     /\ \E o \in EngineOutcomes(Statement(rec), engine[HostOf(rec)]) :
          /\ Settled(r, rec, o)
          /\ engine' = [engine EXCEPT ![HostOf(rec)] = o.table]
     /\ pools' = Release(ConnectionPoolOf(rec))
     /\ UNCHANGED <<pool, dbConfig>>
     /\ Unchanged_process(r)

\* `${col.name} ${col.type}` and the optional parts, lines 406-410.
ColumnDef(col) ==
  <<col.name, " ", col.type>>
  \o (IF Has(col, "not_null") /\ col.not_null THEN <<" NOT NULL">> ELSE <<>>)
  \o (IF Has(col, "default") THEN <<" DEFAULT ", col.default>> ELSE <<>>)
  \o (IF Has(col, "auto_increment") /\ col.auto_increment THEN <<" AUTO_INCREMENT">> ELSE <<>>)
  \o (IF Has(col, "primary_key") /\ col.primary_key THEN <<" PRIMARY KEY">> ELSE <<>>)

RECURSIVE JoinDefs(_)
JoinDefs(defs) ==
  IF defs = <<>> THEN <<>>
  ELSE IF Len(defs) = 1 THEN defs[1]
  ELSE defs[1] \o <<", ">> \o JoinDefs(Tail(defs))

UniqueKeyDefs(args) ==
  IF Has(args, "unique_keys")
  THEN [i \in DOMAIN args.unique_keys |->
          <<"UNIQUE KEY ", args.unique_keys[i].name, " (", args.unique_keys[i].columns, ")">>]
  ELSE <<>>

\* Mutant of CreateTableStatement: only the first column is defined.
CreateTableStatement_firstColumnOnly(args) ==
  [sql |-> <<"CREATE TABLE ", args.table_name, " (">> \o ColumnDef(args.columns[1]) \o <<")">>,
   params |-> <<>>]

\* createTableSql, lines 404-421.
CreateTableStatement(args) ==
  [sql |-> <<"CREATE TABLE ", args.table_name, " (">>
           \o JoinDefs([i \in DOMAIN args.columns |-> ColumnDef(args.columns[i])]
                       \o UniqueKeyDefs(args))
           \o <<")">>,
   params |-> <<>>]

\* The DROP of createOrModifyTable settles (line 401).  When it succeeded the
\* column list is built, which throws when `columns` is not iterable, and the
\* CREATE is passed to connection.execute (line 422).
DropSettles(r) ==
  LET rec == reqs[r]
  IN /\ Suspended(r, "op_drop")
     /\ \E o \in EngineOutcomes(Statement(rec), engine[HostOf(rec)]) :
          /\ engine' = [engine EXCEPT ![HostOf(rec)] = o.table]
          /\ IF ~o.ok
             THEN /\ Settled(r, rec, o)
                  /\ pools' = Release(ConnectionPoolOf(rec))
             ELSE IF ~Has(rec.arguments, "columns")
             THEN /\ Finish(r, [rec EXCEPT !.held = FALSE], ErrorResult(NotIterableError))
                  /\ pools' = Release(ConnectionPoolOf(rec))
             ELSE /\ reqs' = [reqs EXCEPT ![r] =
                                [rec EXCEPT !.pc = "op_create",
                                            !.sent = Append(rec.sent,
                                                            Execute(rec, CreateTableStatement(rec.arguments)))]]
                  /\ UNCHANGED <<pools, responses>>
     /\ UNCHANGED <<pool, dbConfig>>
     /\ Unchanged_process(r)

\* The CREATE of createOrModifyTable settles (lines 422-430).
CreateSettles(r) ==
  LET rec == reqs[r]
  IN /\ Suspended(r, "op_create")
     /\ \E o \in EngineOutcomes(Statement(rec), engine[HostOf(rec)]) :
          /\ Settled(r, rec, o)
          /\ engine' = [engine EXCEPT ![HostOf(rec)] = o.table]
     /\ pools' = Release(ConnectionPoolOf(rec))
     /\ UNCHANGED <<pool, dbConfig>>
     /\ Unchanged_process(r)

\* The continuations of request r's handler.
Continue(r) ==
  \/ ConnectSettles(r)
  \/ AutoConnectSettles(r)
  \/ AfterAutoConnect(r)
  \/ GetConnectionSettles(r)
  \/ ExecuteSettles(r)
  \/ DropSettles(r)
  \/ CreateSettles(r)

Next ==
  \/ StartServerFails
  \/ StartServer
  \/ StartupConnected
  \/ StartupConnectFails
  \/ CallTool
  \/ \E r \in DOMAIN reqs : ConnectSettles(r)
  \/ \E r \in DOMAIN reqs : AutoConnectSettles(r)
  \/ \E r \in DOMAIN reqs : AfterAutoConnect(r)
  \/ \E r \in DOMAIN reqs : GetConnectionSettles(r)
  \/ \E r \in DOMAIN reqs : ExecuteSettles(r)
  \/ \E r \in DOMAIN reqs : DropSettles(r)
  \/ \E r \in DOMAIN reqs : CreateSettles(r)

Spec == Init /\ [][Next]_vars

\* SIGINT or SIGTERM is delivered to the server process.  The server of lines
\* 302-789 registers no handler for either (startServer, lines 526-784, has no
\* process.on), so Node's default disposition ends the process at once: no
\* code of the server runs, and no pool is ended.
Signal ==
  /\ proc \in {"starting", "running"}
  /\ proc' = "exited"
  /\ exitBy' = "signal"
  /\ UNCHANGED <<env, pool, dbConfig, pools, startup, startupResult, engine,
                 reqs, responses, overlapped>>
  /\ UNCHANGED around

SignalNext == Next \/ Signal

\* The server in an environment that may send it a termination signal.
SignalSpec == Init /\ [][SignalNext]_vars

\* The event loop runs every continuation that is ready, and the MySQL
\* client settles every call it was given.
FairSpec == Spec /\ \A r \in 1..MaxReq : WF_vars(r \in DOMAIN reqs /\ Continue(r))


-----------------------------------------------------------------------------
(* The launcher scripts: src/run.js, src/index.js, src/unnamed/part_000,   *)
(* part_001 and part_002.  Each spawns the Python server as a child        *)
(* process and stands between the client and that child.  The client (it   *)
(* writes the launcher's stdin and sends it signals), the probes for a     *)
(* Python command, pip and the child are the environment.                  *)

Launchers == {"run.js", "index.js", "part_000", "part_001", "part_002"}

\* The signals every launcher registers a handler for.
Signals == {"SIGINT", "SIGTERM"}

\* A signal no process can handle.
SIGKILL == "SIGKILL"

\* JavaScript's null, where the code handles it as an exit code.
Null == -1

\* The exit code of a Node.js process that its default disposition for
\* signal s has ended.
KilledBy(s) == IF s = "SIGINT" THEN 130 ELSE 143

NL == "\n"

\* The chunks a stream delivers: text is a sequence of characters, and a
\* chunk either ends a line or does not.
Chunks == {<<"a", NL>>, <<"b">>}

\* How a child process ended: with an exit code, or killed by a signal
\* (then the `exit` and `close` events carry the code null).
Exited(code) == [code |-> code, signal |-> ""]
Killed(s) == [code |-> Null, signal |-> s]
NoStatus == [code |-> Null, signal |-> "none"]

\* Mutant of ProbeOrder: `python` is tried first.
ProbeOrder_pythonFirst == <<"python", "python3">>

\* index.js getPythonCommand: the commands it tries, in order.
ProbeOrder == <<"python3", "python">>

NewLauncher(k) ==
  [kind |-> k,
   pc |-> IF k = "index.js" THEN "probe" ELSE "ready",
   probe |-> 1,            \* index.js: the command being tried
   probed |-> <<>>,        \* index.js: the commands tried, each with its outcome
   settled |-> <<>>,       \* index.js: the resolve/reject calls of getPythonCommand
   failure |-> "",         \* index.js: what made main give up
   pythonCmd |-> "",       \* index.js: the command getPythonCommand resolved with
   steps |-> <<>>,         \* history: the stages the launcher has been through
   installCode |-> Null,   \* index.js: exit code of the pip run
   piped |-> 0,            \* index.js: chunks pip has written
   child |-> "none",       \* "none" | "running" | "gone" | "failed"
   status |-> NoStatus,    \* how the child ended
   emitted |-> 0,          \* chunks the child has written
   childOut |-> <<>>,      \* what the child wrote to its stdout
   childErr |-> <<>>,      \* what the child wrote to its stderr
   exited |-> FALSE,       \* the launcher process has ended
   exitCode |-> 0,
   received |-> <<>>,      \* signals delivered to the launcher
   forwarded |-> <<>>,     \* signals the launcher has sent to the child
   stdinOpen |-> TRUE,     \* the client has not closed the launcher's stdin
   arrived |-> <<>>,       \* chunks the client has written to the launcher's stdin
   childStdin |-> <<>>,    \* chunks written to the child's stdin
   childStdinEnded |-> FALSE,
   out |-> <<>>,           \* writes to the launcher's stdout, each tagged with its origin
   err |-> <<>>,           \* writes to the launcher's stderr
   stdoutBuffer |-> <<>>,  \* part_001 `let stdoutBuffer`
   stderrBuffer |-> <<>>]  \* part_001 `let stderrBuffer`

\* Bounds of a launcher's run.
MaxInput == 1
MaxOutput == 2
MaxPipOutput == 1
MaxSignals == 1

\* process.exit(code): Node.js takes null (and undefined) as "no code given"
\* and exits with process.exitCode, which is 0 when nothing has set it.
ProcessExit(code) == IF code = Null THEN 0 ELSE code

Exit(l, code) == [l EXCEPT !.exited = TRUE, !.exitCode = ProcessExit(code)]

\* One write to the launcher's stdout or stderr.
Write(l, channel, from, data) ==
  IF channel = "out"
  THEN [l EXCEPT !.out = Append(@, [from |-> from, data |-> data])]
  ELSE [l EXCEPT !.err = Append(@, [from |-> from, data |-> data])]

RECURSIVE WriteAll(_, _, _, _)
WriteAll(l, channel, from, datas) ==
  IF datas = <<>> THEN l
  ELSE WriteAll(Write(l, channel, from, Head(datas)), channel, from, Tail(datas))

\* console.log(message) and console.error(message) write the message and a
\* newline to stdout and to stderr.
ConsoleLog(l, from, text) == Write(l, "out", from, text \o <<NL>>)
ConsoleError(l, from, text) == Write(l, "err", from, text \o <<NL>>)

Step(l, name) == [l EXCEPT !.steps = Append(@, name)]

\* String.prototype.trim over the characters the chunks are made of.
RECURSIVE TrimLeft(_)
TrimLeft(text) ==
  IF text # <<>> /\ Head(text) \in {NL, " "} THEN TrimLeft(Tail(text)) ELSE text

RECURSIVE TrimRight(_)
TrimRight(text) ==
  IF text # <<>> /\ text[Len(text)] \in {NL, " "}
  THEN TrimRight(SubSeq(text, 1, Len(text) - 1)) ELSE text

Trim(text) == TrimRight(TrimLeft(text))

\* buffer.indexOf('\n'), counted from 1; 0 when there is none.
IndexOfNewline(buffer) ==
  IF \E i \in DOMAIN buffer : buffer[i] = NL
  THEN CHOOSE i \in DOMAIN buffer :
         buffer[i] = NL /\ \A j \in 1..(i - 1) : buffer[j] # NL
  ELSE 0

\* part_001's loop over a buffer: the complete lines, and what stays behind.
RECURSIVE SplitLines(_)
SplitLines(buffer) ==
  LET k == IndexOfNewline(buffer)
  IN IF k = 0 THEN [lines |-> <<>>, rest |-> buffer]
     ELSE LET more == SplitLines(SubSeq(buffer, k + 1, Len(buffer)))
          IN [lines |-> <<SubSeq(buffer, 1, k - 1)>> \o more.lines,
              rest |-> more.rest]

\* [f(x) : x in a sequence]
LinesWith(prefix, lines, suffix) ==
  [i \in DOMAIN lines |-> prefix \o lines[i] \o suffix]

\* The launcher's handler for a chunk on the child's stdout.
OnChildStdout(l, data) ==
  IF l.kind = "part_001"
  THEN LET split == SplitLines(l.stdoutBuffer \o data)
       IN WriteAll([l EXCEPT !.stdoutBuffer = split.rest], "out", "child.stdout",
                   LinesWith(<<>>, split.lines, <<NL>>))
  ELSE Write(l, "out", "child.stdout", data)

\* Mutant of StderrChannel: index.js logs the child's stderr with console.log.
StderrChannel_consoleLog(k) == IF k = "index.js" THEN "out" ELSE "err"

\* Where launcher k sends what the child writes to its stderr: console.error
\* in run.js, index.js, part_000 and part_001, pipe(process.stderr) in part_002.
StderrChannel(k) == "err"

\* The launcher's handler for a chunk on the child's stderr.
OnChildStderr(l, data) ==
  CASE l.kind \in {"run.js", "part_000"} ->
         Write(l, StderrChannel(l.kind), "child.stderr",
               <<"[Python] ">> \o Trim(data) \o <<NL>>)
    [] l.kind = "index.js" ->
         Write(l, StderrChannel(l.kind), "child.stderr",
               <<"Python: ">> \o data \o <<NL>>)
    [] l.kind = "part_001" ->
         LET split == SplitLines(l.stderrBuffer \o data)
         IN WriteAll([l EXCEPT !.stderrBuffer = split.rest],
                     StderrChannel(l.kind), "child.stderr",
                     LinesWith(<<"[Python] ">>, split.lines, <<NL>>))
    [] OTHER -> Write(l, StderrChannel(l.kind), "child.stderr", data)

\* Whether launcher k hands its stdin to the child: process.stdin.pipe in
\* run.js, part_000 and part_002, a 'data' handler in part_001; index.js
\* never reads process.stdin.
ForwardsStdin(k) == k # "index.js"

\* Nothing keeps the event loop of part_001 and part_002 going once the
\* child is gone and stdin has ended: the process ends with code 0.  (The
\* other launchers have called process.exit by then; index.js never reads
\* its stdin.)
Drained(l) ==
  IF ~l.exited /\ l.child = "gone" /\ ~l.stdinOpen
     /\ l.kind \in {"part_001", "part_002"}
  THEN Exit(l, 0) ELSE l

\* Mutant of OnChildExit: every launcher passes the child's code to
\* process.exit and looks at nothing else.
OnChildExit_codeOnly(l, status) == Exit(l, status.code)

\* The launcher's handler for the end of the child: 'exit' (code, signal)
\* in run.js, part_000 and part_001, 'exit' (code) in part_002, 'close'
\* (code) in index.js.
OnChildExit(l, status) ==
  CASE l.kind \in {"run.js", "part_000"} ->
         IF status.signal # ""
         THEN Exit(ConsoleError(l, "launcher", <<"killed with signal">>), 1)
         ELSE IF status.code # 0
         THEN Exit(ConsoleError(l, "launcher", <<"exited with code">>), status.code)
         ELSE Exit(ConsoleError(l, "launcher", <<"exited normally">>), 0)
    [] l.kind = "part_001" ->
         IF status.signal # ""
         THEN Exit(ConsoleError(l, "launcher", <<"killed with signal">>), 1)
         ELSE IF status.code # 0
         THEN Exit(ConsoleError(l, "launcher", <<"exited with code">>), status.code)
         ELSE ConsoleError(l, "launcher", <<"exited normally">>)
    [] l.kind = "part_002" ->
         IF status.code # 0
         THEN Exit(ConsoleError(l, "launcher", <<"exited with code">>), status.code)
         ELSE l
    [] OTHER ->
         IF status.code # 0
         THEN Exit(ConsoleError(l, "launcher", <<"exited with code">>), status.code)
         ELSE Exit(l, status.code)

\* spawn(pythonCmd, [script]) and the handlers registered right after it.
Spawned(l) == Step([l EXCEPT !.child = "running", !.pc = "run"], "spawn")

\* index.js startServer (lines 89-143), entered once the requirements are
\* installed: exit 1 when the server script is missing, else spawn.
StartServerIndex(l, scriptExists) ==
  LET logged == ConsoleLog(ConsoleLog(Step(l, "start"), "launcher", <<"Starting MCP server">>),
                           "launcher", <<"Server script path">>)
  IN IF ~scriptExists
     THEN Exit(ConsoleError([logged EXCEPT !.failure = "script"], "launcher",
                            <<"script not found">>), 1)
     ELSE Spawned(ConsoleError(logged, "launcher", <<"DB Settings">>))

\* index.js main after getPythonCommand has resolved (lines 149-153) and the
\* synchronous part of installRequirements (lines 57-68).
AfterDetect(l, cmd, requirementsExist) ==
  LET found == ConsoleLog(ConsoleLog([l EXCEPT !.pythonCmd = cmd], "launcher",
                                     <<"Found Python command">>),
                          "launcher", <<"Checking Python requirements">>)
  IN IF ~requirementsExist
     THEN Exit(ConsoleError(ConsoleError([found EXCEPT !.failure = "requirements"],
                                         "launcher", <<"requirements.txt not found">>),
                            "launcher", <<"Error">>), 1)
     ELSE Step([found EXCEPT !.pc = "install"], "install")

Only(l) == launcher' = l /\ UNCHANGED <<server, sessions, variant, handed>>

\* index.js: the probe of a Python command settles (lines 35-50).
ProbeSettles ==
  /\ launcher.kind = "index.js"
  /\ launcher.pc = "probe"
  /\ ~launcher.exited
  /\ \E error \in BOOLEAN, requirementsExist \in BOOLEAN :
       LET cmd == ProbeOrder[launcher.probe]
           l == [launcher EXCEPT !.probed = Append(@, [cmd |-> cmd, error |-> error])]
       IN IF ~error
          THEN Only(AfterDetect(
                 Step([l EXCEPT !.settled = Append(@, [how |-> "resolve", value |-> cmd])],
                      "detect"),
                 cmd, requirementsExist))
          ELSE IF launcher.probe < Len(ProbeOrder)
          THEN /\ requirementsExist
               /\ Only([l EXCEPT !.probe = @ + 1])
          ELSE /\ requirementsExist
               /\ Only(Exit(ConsoleError(
                         [l EXCEPT !.settled = Append(@, [how |-> "reject", value |-> ""]),
                                   !.failure = "detect"],
                         "launcher", <<"Error">>), 1))

\* index.js: pip writes a chunk to its stdout or stderr (lines 70-76).
PipOutput ==
  /\ launcher.kind = "index.js"
  /\ launcher.pc = "install"
  /\ ~launcher.exited
  /\ launcher.piped < MaxPipOutput
  /\ \E stream \in {"out", "err"}, data \in Chunks :
       Only(Write([launcher EXCEPT !.piped = @ + 1], stream,
                  IF stream = "out" THEN "pip.stdout" ELSE "pip.stderr",
                  data \o <<NL>>))

\* Mutant of InstallSucceeded: the exit code of pip is not looked at.
InstallSucceeded_any(code) == TRUE

\* installRequirements resolves when pip's exit code is 0 (`code !== 0`
\* rejects, line 79).
InstallSucceeded(code) == code = 0

\* index.js: the pip run closes (lines 78-85), and main goes on to
\* startServer when its code is 0.
InstallCloses ==
  /\ launcher.kind = "index.js"
  /\ launcher.pc = "install"
  /\ ~launcher.exited
  /\ \E code \in {0, 1}, scriptExists \in BOOLEAN :
       LET l == [launcher EXCEPT !.installCode = code]
       IN IF ~InstallSucceeded(code)
          THEN /\ scriptExists
               /\ Only(Exit(ConsoleError([l EXCEPT !.failure = "install"], "launcher",
                                         <<"Error">>), 1))
          ELSE Only(StartServerIndex(
                      ConsoleLog(l, "launcher", <<"Requirements installed successfully">>),
                      scriptExists))

\* run.js, part_000, part_001, part_002: the script runs from its top to
\* the end of its registrations.  run.js and part_000 exit 1 when
\* mcp_server.py is missing.
Start ==
  /\ launcher.kind \in Launchers \ {"index.js"}
  /\ launcher.pc = "ready"
  /\ ~launcher.exited
  /\ \E scriptExists \in BOOLEAN :
       IF launcher.kind \in {"run.js", "part_000"} /\ ~scriptExists
       THEN Only(Exit(ConsoleError(launcher, "launcher", <<"script not found">>), 1))
       ELSE /\ scriptExists
            /\ Only(Spawned(launcher))

\* The child could not be started: its 'error' event.  Every launcher but
\* index.js handles it with process.exit(1); in index.js the event has no
\* listener and is thrown, which ends the process with code 1 as well.
SpawnError ==
  /\ launcher.pc = "run"
  /\ launcher.child = "running"
  /\ ~launcher.exited
  /\ launcher.emitted = 0 /\ launcher.arrived = <<>> /\ launcher.received = <<>>
  /\ launcher.stdinOpen
  /\ Only(Exit(ConsoleError([launcher EXCEPT !.child = "failed"], "launcher",
                            <<"Failed to start Python process">>), 1))

\* The client writes a chunk to the launcher's stdin.
StdinData ==
  /\ launcher.pc = "run"
  /\ ~launcher.exited
  /\ launcher.stdinOpen
  /\ Len(launcher.arrived) < MaxInput
  /\ \E data \in Chunks :
       LET l == [launcher EXCEPT !.arrived = Append(@, data)]
       IN IF ForwardsStdin(launcher.kind) /\ launcher.child = "running"
          THEN Only([l EXCEPT !.childStdin = Append(@, data)])
          ELSE Only(l)

\* The client closes the launcher's stdin.
StdinEnd ==
  /\ launcher.pc = "run"
  /\ ~launcher.exited
  /\ launcher.stdinOpen
  /\ LET l == [launcher EXCEPT !.stdinOpen = FALSE]
     IN IF ForwardsStdin(launcher.kind) /\ launcher.child = "running"
        THEN Only([l EXCEPT !.childStdinEnded = TRUE])
        ELSE Only(Drained(l))

\* The child writes a chunk to its stdout.
ChildStdout ==
  /\ launcher.child = "running"
  /\ ~launcher.exited
  /\ launcher.emitted < MaxOutput
  /\ \E data \in Chunks :
       Only(OnChildStdout([launcher EXCEPT !.emitted = @ + 1,
                                           !.childOut = Append(@, data)], data))

\* The child writes a chunk to its stderr.
ChildStderr ==
  /\ launcher.child = "running"
  /\ ~launcher.exited
  /\ launcher.emitted < MaxOutput
  /\ \E data \in Chunks :
       Only(OnChildStderr([launcher EXCEPT !.emitted = @ + 1,
                                           !.childErr = Append(@, data)], data))

\* The signal a launcher's handler for signal s sends to the child:
\* pythonProcess.kill('SIGINT') in the SIGINT handler, kill('SIGTERM') in
\* the SIGTERM handler.
ForwardedSignal(s) == s

\* A termination signal is delivered to the launcher.
LauncherSignal ==
  /\ ~launcher.exited
  /\ Len(launcher.received) < MaxSignals
  /\ \E s \in Signals :
       LET l == [launcher EXCEPT !.received = Append(@, s)]
       IN IF launcher.pc # "run"
          THEN \* index.js before startServer: no handler is registered
               Only([l EXCEPT !.exited = TRUE, !.exitCode = KilledBy(s)])
          ELSE LET told == CASE launcher.kind = "index.js" ->
                                  ConsoleLog(l, "launcher", <<"Received ", s>>)
                             [] launcher.kind = "part_002" -> l
                             [] OTHER -> ConsoleError(l, "launcher", <<"Received ", s>>)
               IN IF launcher.child = "running"
                  THEN Only([told EXCEPT !.forwarded = Append(@, ForwardedSignal(s))])
                  ELSE Only(told)

\* The ways the child can end: by itself with a code, killed by a signal
\* its launcher sent it, or killed from outside.
ChildEndings ==
  {Exited(0), Exited(1), Exited(2)}
    \cup {Killed(launcher.forwarded[i]) : i \in DOMAIN launcher.forwarded}
    \cup {Killed(SIGKILL)}

\* The child process ends and the launcher's handler for it runs.
ChildExit ==
  /\ launcher.child = "running"
  /\ ~launcher.exited
  /\ \E status \in ChildEndings :
       Only(Drained(OnChildExit([launcher EXCEPT !.child = "gone", !.status = status],
                                status)))

LauncherNext ==
  \/ ProbeSettles
  \/ PipOutput
  \/ InstallCloses
  \/ Start
  \/ SpawnError
  \/ StdinData
  \/ StdinEnd
  \/ ChildStdout
  \/ ChildStderr
  \/ LauncherSignal
  \/ ChildExit

\* The stdio server is not part of a launcher's run.
ServerIdle == ServerInit /\ env = CfgA

LauncherInit ==
  /\ ServerIdle
  /\ launcher \in {NewLauncher(k) : k \in Launchers}
  /\ sessions = NoSessions
  /\ variant = NoVariant
  /\ handed = NoHanded

\* A launcher, its client and its child.
LauncherSpec == LauncherInit /\ [][LauncherNext]_vars

-----------------------------------------------------------------------------
(* The pool that createConnectionPool builds (part_003, lines 364-372), as *)
(* its options make mysql2 serve the callers of pool.getConnection().      *)

\* Mutant of PoolOptions: the wait queue holds one caller at most.
PoolOptions_boundedQueue ==
  [waitForConnections |-> TRUE, connectionLimit |-> connectionLimit, queueLimit |-> 1]

\* Lines 369-371.  A queueLimit of 0 means no limit.
PoolOptions ==
  [waitForConnections |-> TRUE, connectionLimit |-> connectionLimit, queueLimit |-> 0]

\* Number of getConnection calls in a run.
MaxAsks == 12

\* A pool nobody has used yet.  Callers are numbered in the order they ask.
NewSessions ==
  [asked |-> 0,        \* getConnection calls so far
   holding |-> {},     \* the callers that hold a session
   queue |-> <<>>,     \* the callers waiting for one, in order
   waited |-> {},      \* history: the callers that were queued
   rejected |-> {},    \* the callers whose getConnection failed
   released |-> 0]     \* connection.release() calls so far

OnlySessions(s) == sessions' = s /\ UNCHANGED <<server, launcher, variant, handed>>

\* pool.getConnection(): a session at once while fewer than connectionLimit
\* are out; otherwise an error when the pool does not wait or its queue is
\* full, and a place in the queue if not.
GetConnection ==
  /\ sessions.asked < MaxAsks
  /\ LET c == sessions.asked + 1
         s == [sessions EXCEPT !.asked = c]
     IN IF Cardinality(sessions.holding) < PoolOptions.connectionLimit
        THEN OnlySessions([s EXCEPT !.holding = @ \cup {c}])
        ELSE IF ~PoolOptions.waitForConnections
                \/ (PoolOptions.queueLimit # 0
                    /\ Len(sessions.queue) >= PoolOptions.queueLimit)
        THEN OnlySessions([s EXCEPT !.rejected = @ \cup {c}])
        ELSE OnlySessions([s EXCEPT !.queue = Append(@, c), !.waited = @ \cup {c}])

\* connection.release() (the `finally` blocks of the operations): the
\* session goes to the first caller in the queue, if there is one.
ReleaseConnection ==
  \E c \in sessions.holding :
    LET s == [sessions EXCEPT !.holding = @ \ {c}, !.released = @ + 1]
    IN IF sessions.queue # <<>>
       THEN OnlySessions([s EXCEPT !.holding = @ \cup {Head(sessions.queue)},
                                   !.queue = Tail(@)])
       ELSE OnlySessions(s)

SessionsNext == GetConnection \/ ReleaseConnection

SessionsInit ==
  /\ ServerIdle
  /\ launcher = NoLauncher
  /\ sessions = NewSessions
  /\ variant = NoVariant
  /\ handed = NoHanded

\* One pool and the operations that ask it for sessions.
SessionsSpec == SessionsInit /\ [][SessionsNext]_vars

-----------------------------------------------------------------------------
(* The older Node.js variant of the server (part_003, lines 185-301) and   *)
(* its connectDb tool.  The tool is async, so a call that waits at one of  *)
(* its awaits leaves the server free to start another call.                *)

\* Number of connect_db calls in a run.
MaxCalls == 3

\* `let pool = null`, no pool created, no call made.  pool is 0 for null,
\* otherwise an index into pools.
NewVariant == [pc |-> "run", pool |-> 0, pools |-> <<>>, calls |-> <<>>]

OnlyVariant(v) == variant' = v /\ UNCHANGED <<server, launcher, sessions, handed>>

\* mysql.createPool(...) and the assignment to `pool` (lines 205-213), by call c.
VariantCreatePool(v, c) ==
  [v EXCEPT !.pools = Append(@, [by |-> c, ended |-> FALSE]),
            !.pool = Len(v.pools) + 1,
            !.calls[c].pc = "query",
            !.calls[c].created = Len(v.pools) + 1]

\* connectDb is called and runs to its first await (lines 197-216).
ConnectDb ==
  /\ variant.pc = "run"
  /\ Len(variant.calls) < MaxCalls
  /\ LET c == Len(variant.calls) + 1
         v == [variant EXCEPT !.calls = Append(@, [pc |-> "start", found |-> variant.pool,
                                                   created |-> 0, success |-> FALSE])]
     IN IF variant.pool # 0
        THEN OnlyVariant([v EXCEPT !.calls[c].pc = "end"])
        ELSE OnlyVariant(VariantCreatePool(v, c))

\* `await pool.end()` of call c settles (lines 200-202): the old pool is
\* ended and the call goes on to create its pool, or end() rejects and the
\* catch block returns the failure.
EndSettles ==
  /\ variant.pc = "run"
  /\ \E c \in DOMAIN variant.calls :
       /\ variant.calls[c].pc = "end"
       /\ \/ OnlyVariant(VariantCreatePool(
                 [variant EXCEPT !.pools[variant.calls[c].found].ended = TRUE], c))
          \/ OnlyVariant([variant EXCEPT !.calls[c].pc = "returned"])

\* `await pool.query('SELECT 1')` of call c settles (lines 216-221).
QuerySettles ==
  /\ variant.pc = "run"
  /\ \E c \in DOMAIN variant.calls, ok \in BOOLEAN :
       /\ variant.calls[c].pc = "query"
       /\ OnlyVariant([variant EXCEPT !.calls[c].pc = "returned",
                                      !.calls[c].success = ok])

VariantNext == ConnectDb \/ EndSettles \/ QuerySettles

VariantInit ==
  /\ ServerIdle
  /\ launcher = NoLauncher
  /\ sessions = NoSessions
  /\ variant = NewVariant
  /\ handed = NoHanded

\* The older variant serving connect_db calls.
VariantSpec == VariantInit /\ [][VariantNext]_vars

-----------------------------------------------------------------------------
(* Where the credentials come from: run.js builds the environment of the   *)
(* server it spawns from its own environment and from the configuration    *)
(* start(config) is given (run.js, lines 57-89); the stdio server reads    *)
(* its environment (part_003, lines 338-351) and the arguments of          *)
(* connect_db (lines 356-372, 728-729).                                    *)

Fields == {"host", "user", "password", "database"}

\* The values of one family of variables; "" is a variable that is not set.
Unset == [f \in Fields |-> ""]
MysqlVars == [host |-> "envhost", user |-> "envuser", password |-> "envpw",
              database |-> "envdb"]

\* The environments a process is started in: MYSQL_HOST.., DB_HOST.. and
\* mysqlHost.. .
ProcessEnvs ==
  {[MYSQL |-> m, DB |-> d, alias |-> a] :
     m \in {Unset, MysqlVars, [MysqlVars EXCEPT !.database = ""]},
     d \in {Unset, [Unset EXCEPT !.host = "dbhost"]},
     a \in {Unset, [Unset EXCEPT !.host = "aliashost"]}}

\* The `config` start() is called with; given = FALSE is `undefined`, and
\* the script run from the command line, which calls startServer() itself.
NoBlob == [given |-> FALSE, values |-> Unset]
Blobs ==
  {NoBlob} \cup
  {[given |-> TRUE, values |-> [Unset EXCEPT !.host = h, !.user = u]] :
     h \in {"", "blobhost"}, u \in {"", "blobuser"}}

\* run.js lines 57-71: `env` starts as a copy of process.env, and DB_* are
\* set from MYSQL_* when all four of these are set.
RunEnv(pe) ==
  IF \A f \in Fields : pe.MYSQL[f] # ""
  THEN [pe EXCEPT !.DB = pe.MYSQL]
  ELSE pe

\* Mutant of Override: a value the environment gave is kept.
Override_keepsEnvironment(envValue, blobValue) ==
  IF envValue # "" THEN envValue ELSE blobValue

\* run.js lines 82-85: `if (config.mysqlHost) env.DB_HOST = config.mysqlHost`.
Override(envValue, blobValue) ==
  IF blobValue # "" THEN blobValue ELSE envValue

\* start(config), lines 76-87: the environment the child is spawned with.
ChildEnv(e, config) ==
  IF config.given
  THEN [e EXCEPT !.DB = [f \in Fields |-> Override(e.DB[f], config.values[f])]]
  ELSE e

\* a || b
Or(a, b) == IF a # "" THEN a ELSE b

\* getConfigFromEnv of the stdio server, lines 338-351.
EnvConfig(pe) == [f \in Fields |-> Or(pe.alias[f], pe.MYSQL[f])]

\* The options createConnectionPool(config) hands to mysql.createPool
\* (lines 364-368); it creates no pool when host, user or password is missing.
PoolConfig(config) == [f \in Fields |-> config[f]]

NewHanded(pe) ==
  [pc |-> "loaded",        \* run.js: "loaded" | "set up" | "spawned"
   processEnv |-> pe,
   env |-> pe,             \* run.js `const env`
   config |-> NoBlob,      \* what start() was called with
   childEnv |-> pe,        \* the environment of the spawned server
   envConfig |-> Unset,    \* stdio server: what getConfigFromEnv returned
   args |-> Unset,         \* stdio server: the arguments of the last connect_db
   poolConfig |-> Unset]   \* stdio server: the options of the pool it created

OnlyHanded(h) == handed' = h /\ UNCHANGED <<server, launcher, sessions, variant>>

\* run.js runs from its top to the export of start (lines 1-71).
RunSetup ==
  /\ handed.pc = "loaded"
  /\ OnlyHanded([handed EXCEPT !.pc = "set up", !.env = RunEnv(handed.processEnv)])

\* start(config) is called, or the script calls startServer() itself
\* (lines 74-94).
RunStart ==
  /\ handed.pc = "set up"
  /\ \E config \in Blobs :
       OnlyHanded([handed EXCEPT !.pc = "spawned", !.config = config,
                                 !.childEnv = ChildEnv(handed.env, config)])

\* The stdio server reads its environment (lines 721, 775).
ReadEnv ==
  /\ handed.pc # "none"
  /\ handed.envConfig # EnvConfig(handed.processEnv)
  /\ OnlyHanded([handed EXCEPT !.envConfig = EnvConfig(handed.processEnv)])

\* The stdio server is asked to connect_db with `args` (lines 728-729).
ConnectWith ==
  /\ handed.pc # "none"
  /\ \E args \in {CfgA, CfgB, CfgNoPassword} :
       /\ handed.args # args
       /\ OnlyHanded([handed EXCEPT !.args = args,
                                    !.poolConfig = IF Complete(args) THEN PoolConfig(args)
                                                   ELSE handed.poolConfig])

HandedNext == RunSetup \/ RunStart \/ ReadEnv \/ ConnectWith

HandedInit ==
  /\ ServerIdle
  /\ launcher = NoLauncher
  /\ sessions = NoSessions
  /\ variant = NoVariant
  /\ handed \in {NewHanded(pe) : pe \in ProcessEnvs}

\* The credentials on their way to the server.
HandedSpec == HandedInit /\ [][HandedNext]_vars

-----------------------------------------------------------------------------
(* Properties *)

\* The responses returned for request r.
ResponsesTo(r) == {i \in DOMAIN responses : responses[i].id = r}

ResponseTo(r) == responses[CHOOSE i \in ResponsesTo(r) : TRUE].envelope

IsResult(res) == "success" \in DOMAIN res

Failure(res) == IsResult(res) /\ ~res.success

FailedWith(res, message) == Failure(res) /\ "error" \in DOMAIN res /\ res.error = message

Done(r) == reqs[r].pc = "done"

\* Request r was answered with a failure: an error envelope or success=false.
AnsweredFailure(r) ==
  /\ Done(r)
  /\ ResponsesTo(r) # {}
  /\ (ResponseTo(r).isError \/ Failure(ResponseTo(r).text))

\* C1: every tool-call request gets exactly one response: never two, a
\* response exactly when its handler has finished, and every request received
\* is eventually answered, whatever the tool, the arguments, the pool and the
\* engine's answers.
C1_ExactlyOneResponse ==
  /\ [](\A r \in DOMAIN reqs :
          /\ Cardinality(ResponsesTo(r)) <= 1
          /\ (Done(r) <=> Cardinality(ResponsesTo(r)) = 1))
  /\ \A r \in 1..MaxReq :
       (r \in DOMAIN reqs) ~> (r \in DOMAIN reqs /\ Cardinality(ResponsesTo(r)) = 1)

\* Both requests of a run are answered once each, one after the engine
\* rejected its statement and one naming an unknown tool.
C1_Witness ==
  /\ Len(reqs) = 2
  /\ \A r \in DOMAIN reqs : Done(r) /\ Cardinality(ResponsesTo(r)) = 1
  /\ \E r \in DOMAIN reqs : FailedWith(reqs[r].result, EngineError)
  /\ \E r \in DOMAIN reqs : reqs[r].name \notin ToolNames

\* C2: no failure of an operation ends the process or stops the handler: once
\* a request has been answered with a failure the process is still running,
\* the next request is accepted, and every handler in progress can go on.
C2_FailureNotFatal ==
  (\E r \in DOMAIN reqs : AnsweredFailure(r)) =>
     /\ proc = "running"
     /\ exitBy = "none"
     /\ (Len(reqs) < MaxReq => ENABLED CallTool)
     /\ \A r \in InProgress : ENABLED Continue(r)

\* A request is answered after an earlier one failed on the missing column
\* list of create_or_modify_table.
C2_Witness ==
  /\ Len(reqs) = 2
  /\ FailedWith(reqs[1].result, NotIterableError)
  /\ AnsweredFailure(1)
  /\ Done(2)
  /\ ResponsesTo(2) # {}
  /\ proc = "running"

\* Every request received so far was a connect_db, handled one after the
\* other, and each succeeded; startServer made no connection of its own.
SequentialSuccessfulConnects ==
  /\ reqs # <<>>
  /\ ~overlapped
  /\ startup = "skipped"
  /\ \A r \in DOMAIN reqs :
       reqs[r].name = "connect_db" /\ Done(r) /\ IsResult(reqs[r].result)
       /\ reqs[r].result.success

\* C3: after N sequential successful connect_db calls exactly one pool is live
\* (created and not closed), and it is the pool built from the Nth call's
\* configuration.
C3_PoolSingleton ==
  SequentialSuccessfulConnects =>
     /\ Cardinality(LivePools) = 1
     /\ pool \in LivePools
     /\ pools[pool].config = reqs[Len(reqs)].arguments

\* C4: when the liveness check of a connect_db fails, the call returns
\* success=false and the pool variable does not refer to the pool whose check
\* failed.
C4_NoHalfInitializedPool ==
  \A r \in DOMAIN reqs :
    (reqs[r].name = "connect_db" /\ Done(r) /\ reqs[r].cpPool # 0
     /\ ~pools[reqs[r].cpPool].tested)
    => (Failure(reqs[r].result) /\ pool # reqs[r].cpPool)

\* The handler of request r is past its ensure-connected step.
PastEnsureConnected(r) == reqs[r].pc \notin {"ac_wait", "ac_ret"}

\* C5: a request makes exactly one connection attempt with the environment's
\* credentials when it is not connect_db, no pool existed when it arrived and
\* the environment has host, user and password, and none otherwise; the
\* attempt uses those credentials and is over before the operation is called.
C5_OneAutoConnectAttempt ==
  \A r \in DOMAIN reqs :
    LET q == reqs[r]
    IN /\ q.envAttempts =
            (IF q.name # "connect_db" /\ q.poolAtStart = 0 /\ Complete(getConfigFromEnv)
             THEN 1 ELSE 0)
       /\ (q.envAttempts = 1 /\ q.cpPool # 0 =>
             pools[q.cpPool].config = getConfigFromEnv /\ pools[q.cpPool].by = r)
       /\ (q.opInvoked => PastEnsureConnected(r))
       /\ (q.envAttempts = 0 /\ q.name # "connect_db" => q.cpPool = 0)

\* A statement operation has run after its request's one auto-connect attempt,
\* another request arrived with a pool in place and made none, and a
\* connect_db made none.
C5_Witness ==
  /\ \E r \in DOMAIN reqs :
       /\ reqs[r].name \in StatementTools
       /\ reqs[r].poolAtStart = 0
       /\ reqs[r].envAttempts = 1
       /\ reqs[r].opInvoked
  /\ \E r \in DOMAIN reqs :
       /\ reqs[r].name \in StatementTools
       /\ reqs[r].poolAtStart # 0
       /\ reqs[r].envAttempts = 0
       /\ reqs[r].opInvoked


\* Request 1 is the first non-connect request and no connect_db came before it.
FirstIsNonConnect == Len(reqs) >= 1 /\ reqs[1].name # "connect_db"

NoConnectSucceeded == \A p \in DOMAIN pools : ~pools[p].tested

\* C7: when the auto-connect attempt made for a non-connect request fails,
\* that request is answered "Database not connected" and not with the
\* connection error's text, and so is every later non-connect request as long
\* as no connect has succeeded (requests handled one after the other).
C7_NotConnectedAfterFailedAutoConnect ==
  \A r \in DOMAIN reqs :
    (reqs[r].envAttempts = 1 /\ Failure(reqs[r].acResult) /\ NoConnectSucceeded
     /\ ~overlapped) =>
      \A k \in r..Len(reqs) :
        (reqs[k].name \in StatementTools /\ Done(k)) =>
           /\ ~ResponseTo(k).isError
           /\ FailedWith(ResponseTo(k).text, NotConnected.error)

\* C8: a statement operation requested while no pool exists and the
\* environment lacks host, user or password makes no connection attempt, passes
\* no statement to the engine, and is answered success=false with the error
\* "Database not connected" and nothing else.
C8_NotConnectedWithoutCredentials ==
  \A r \in DOMAIN reqs :
    (reqs[r].name \in StatementTools /\ reqs[r].poolAtStart = 0
     /\ ~Complete(getConfigFromEnv)) =>
       /\ reqs[r].envAttempts = 0
       /\ reqs[r].cpPool = 0
       /\ reqs[r].opPool = 0
       /\ reqs[r].sent = <<>>
       /\ Done(r)
       /\ Cardinality(ResponsesTo(r)) = 1
       /\ ~ResponseTo(r).isError
       /\ DOMAIN ResponseTo(r).text = {"success", "error"}
       /\ ResponseTo(r).text.success = FALSE
       /\ ResponseTo(r).text.error = "Database not connected"

\* Each of the five statement tools has been answered that way.
C8_Witness ==
  /\ ~Complete(getConfigFromEnv)
  /\ Len(reqs) = 2
  /\ reqs[1].name = "create_or_modify_table"
  /\ reqs[2].name = "describe_table"
  /\ \A r \in DOMAIN reqs : reqs[r].poolAtStart = 0 /\ Done(r)

UnknownTool(r) == reqs[r].name \notin ToolNames

\* What the claim says of the answer to an unknown tool: an error response
\* naming the tool as unknown, no operation of the switch called, no statement
\* passed to the engine, the process running.
UnknownToolAnswer(r) ==
  /\ ~reqs[r].opInvoked
  /\ reqs[r].opPool = 0
  /\ reqs[r].sent = <<>>
  /\ ~IsResult(reqs[r].result)
  /\ proc = "running"
  /\ (Done(r) =>
        /\ Cardinality(ResponsesTo(r)) = 1
        /\ ResponseTo(r).isError
        /\ ResponseTo(r).text.raw =
             <<"Error: ", "MCP error ", MethodNotFound, ": ", "Unknown tool: ", reqs[r].name>>)

\* C9 as stated: a request naming an unknown tool is answered with a
\* method-not-found error response and invokes no database operation at all:
\* no operation of the switch, no statement, no connection attempt.
C9_UnknownToolNoOperation ==
  \A r \in DOMAIN reqs :
    UnknownTool(r) =>
       /\ UnknownToolAnswer(r)
       /\ reqs[r].envAttempts = 0
       /\ reqs[r].cpPool = 0

\* C9 as amended: a request naming an unknown tool is answered with a
\* method-not-found error response; it calls no operation of the switch and
\* passes no statement to the engine, and the only database activity it causes
\* is the one auto-connect attempt of the ensure-connected step, made exactly
\* when no pool exists as it arrives and the environment's credentials are
\* complete.
C9_UnknownToolOnlyAutoConnects ==
  \A r \in DOMAIN reqs :
    UnknownTool(r) =>
       /\ UnknownToolAnswer(r)
       /\ reqs[r].envAttempts =
            (IF reqs[r].poolAtStart = 0 /\ Complete(getConfigFromEnv) THEN 1 ELSE 0)
       /\ (reqs[r].cpPool # 0 => reqs[r].envAttempts = 1)

\* An unknown tool has been answered after its auto-connect attempt installed
\* a pool.
C9_Witness ==
  \E r \in DOMAIN reqs :
    /\ UnknownTool(r)
    /\ Done(r)
    /\ reqs[r].envAttempts = 1
    /\ reqs[r].cpPool # 0
    /\ pool = reqs[r].cpPool
    /\ ResponseTo(r).isError

ResultFields == {"results", "affected_rows", "tables", "columns", "message"}

\* The shape the claim requires of an operation's return value.
WellShaped(res) ==
  IsResult(res) =>
    IF res.success
    THEN "error" \notin DOMAIN res
    ELSE /\ "error" \in DOMAIN res
         /\ res.error # ""
         /\ DOMAIN res \cap ResultFields = {}

C11_OneRequestAtATime ==
  /\ Cardinality(InProgress) <= 1
  /\ \A r \in DOMAIN reqs : r > 1 /\ reqs[r].pc # "done" => Done(r - 1)

\* C12 as stated: responses are returned in the arrival order of their
\* requests: a request received earlier is answered earlier, whatever the
\* duration of the database round trips.
C12_ResponsesInArrivalOrder ==
  \A i, j \in DOMAIN responses : i < j => responses[i].id < responses[j].id

LacksCredential(config) == config.host = "" \/ config.user = "" \/ config.password = ""

\* A connect_db whose configuration lacks host, user or password.
IncompleteConnect(q) == q.name = "connect_db" /\ LacksCredential(q.arguments)

\* C14: a connect_db whose configuration lacks host, user or password is
\* answered, in the step that receives it, with success=false and the
\* missing-parameters error; the process keeps running, no pool is created and
\* `pool`, `dbConfig` and the pools are left exactly as they were.  A connect_db
\* is answered that way only when one of the three is missing: a missing
\* database alone is not rejected.
C14_IncompleteConnectRejected ==
  /\ [][(Len(reqs') = Len(reqs) + 1 /\ IncompleteConnect(reqs'[Len(reqs')])) =>
          /\ pool' = pool
          /\ dbConfig' = dbConfig
          /\ pools' = pools
          /\ proc' = "running"
          /\ exitBy' = "none"
          /\ reqs'[Len(reqs')].pc = "done"
          /\ reqs'[Len(reqs')].cpPool = 0
          /\ responses' = Append(responses,
                                 [id |-> Len(reqs'),
                                  envelope |-> [isError |-> FALSE,
                                                text |-> [success |-> FALSE,
                                                          error |-> "Missing database connection parameters"]]])
       ]_vars
  /\ [](\A r \in DOMAIN reqs :
          (reqs[r].name = "connect_db" /\ Done(r)) =>
             (FailedWith(reqs[r].result, "Missing database connection parameters")
                <=> LacksCredential(reqs[r].arguments)))

\* A connect_db without password has been rejected while the pool of an
\* earlier successful connect_db, one without database, is still the current
\* pool.
C14_Witness ==
  /\ Len(reqs) = 2
  /\ reqs[1].name = "connect_db"
  /\ reqs[1].arguments.database = ""
  /\ IsResult(reqs[1].result) /\ reqs[1].result.success
  /\ IncompleteConnect(reqs[2])
  /\ reqs[2].arguments.password = ""
  /\ Done(2)
  /\ FailedWith(ResponseTo(2).text, "Missing database connection parameters")
  /\ pool = reqs[1].cpPool
  /\ dbConfig = reqs[1].arguments
  /\ proc = "running"

\* C15 as stated: when a connect_db fails, at pool creation or at the liveness
\* check, while the pool of an earlier successful connect is the current pool,
\* that pool is still the current pool afterwards (requests handled one after
\* the other, the failed connect_db being the last).
C15_FailedConnectKeepsEarlierPool ==
  \A r \in DOMAIN reqs :
    LET q == reqs[r]
    IN (/\ q.name = "connect_db"
        /\ Done(r)
        /\ Failure(q.result)
        /\ q.poolAtStart # 0
        /\ pools[q.poolAtStart].tested
        /\ r = Len(reqs)
        /\ ~overlapped)
       => pool = q.poolAtStart

\* The columns a create_or_modify_table request asks for, by name and type.
RequestedColumns(args) ==
  [i \in DOMAIN args.columns |-> [name |-> args.columns[i].name, type |-> args.columns[i].type]]

CreateSucceeded(q) ==
  q.name = "create_or_modify_table" /\ q.pc = "done" /\ IsResult(q.result) /\ q.result.success

\* C16: create_or_modify_table drops and then creates.  The first statement
\* it sends is the DROP of the requested table and the second, sent only after
\* it and on the same session, is the CREATE; it returns success only after
\* both; and in the step in which it succeeds the table on that server exists
\* with exactly the requested columns and no rows, whatever it held before.
C16_DropThenCreate ==
  /\ [](\A r \in DOMAIN reqs :
          LET q == reqs[r]
          IN q.name = "create_or_modify_table" =>
               /\ Len(q.sent) <= 2
               /\ (q.sent # <<>> =>
                     /\ q.sent[1].sql = <<"DROP TABLE IF EXISTS ", q.arguments.table_name>>
                     /\ q.sent[1].on = q.opPool)
               /\ (Len(q.sent) = 2 =>
                     /\ SubSeq(q.sent[2].sql, 1, 2) = <<"CREATE TABLE ", q.arguments.table_name>>
                     /\ q.sent[2].on = q.sent[1].on)
               /\ (CreateSucceeded(q) => Len(q.sent) = 2))
  /\ [][\A r \in DOMAIN reqs :
          (~Done(r) /\ CreateSucceeded(reqs'[r])) =>
             engine'[pools[reqs[r].opPool].config.host] =
               [exists |-> TRUE,
                columns |-> RequestedColumns(reqs[r].arguments),
                rows |-> 0]
       ]_vars

\* The only request of the run, a create_or_modify_table with two columns, has
\* succeeded on the table that held a row when the process started.
C16_Witness ==
  /\ Len(reqs) = 1
  /\ CreateSucceeded(reqs[1])
  /\ Len(reqs[1].arguments.columns) = 2
  /\ engine[pools[reqs[1].opPool].config.host] =
       [exists |-> TRUE, columns |-> RequestedColumns(reqs[1].arguments), rows |-> 0]
  /\ \A h \in Hosts \ {pools[reqs[1].opPool].config.host} : engine[h].rows = 1

\* The requests of query and execute that have passed a statement to the engine.
SentSql == {r \in DOMAIN reqs : reqs[r].name \in {"query", "execute"} /\ reqs[r].sent # <<>>}

\* C17: query and execute pass the engine one statement whose text is exactly
\* the request's sql argument, with the request's params as the separate list
\* of bound values; two requests with the same sql pass identical text whatever
\* their params.
C17_ParametersBoundSeparately ==
  /\ \A r \in SentSql :
       /\ Len(reqs[r].sent) = 1
       /\ reqs[r].sent[1].sql = reqs[r].arguments.sql
       /\ reqs[r].sent[1].params =
            (IF "params" \in DOMAIN reqs[r].arguments THEN reqs[r].arguments.params ELSE <<>>)
  /\ \A r1, r2 \in SentSql :
       reqs[r1].arguments.sql = reqs[r2].arguments.sql =>
         reqs[r1].sent[1].sql = reqs[r2].sent[1].sql

\* Two query requests with the same sql and different params, one of them an
\* injection attempt, have both been executed with the same statement text, and
\* the table still has its row.
C17_Witness ==
  /\ Len(reqs) = 2
  /\ SentSql = {1, 2}
  /\ reqs[1].arguments.sql = reqs[2].arguments.sql
  /\ reqs[1].arguments.params # reqs[2].arguments.params
  /\ reqs[2].arguments.params = <<"1; DROP TABLE t">>
  /\ reqs[1].sent[1].sql = reqs[2].sent[1].sql
  /\ reqs[2].sent[1].params = <<"1; DROP TABLE t">>
  /\ \A r \in DOMAIN reqs : Done(r) /\ reqs[r].result.success
  /\ \A h \in Hosts : engine[h] = TableWithRows

\* Of the identifiers the requests carry, those made of letters, digits and
\* underscores only.
MatchesSafePattern(id) == id \in {"t", "x", "y"}

\* The table and column identifiers a request supplies.
CallerIdentifiers(q) ==
  IF q.name = "describe_table" THEN {q.arguments.table}
  ELSE IF q.name = "create_or_modify_table"
  THEN {q.arguments.table_name}
       \cup (IF "columns" \in DOMAIN q.arguments
             THEN {q.arguments.columns[i].name : i \in DOMAIN q.arguments.columns}
             ELSE {})
  ELSE {}

\* C18 as stated: a describe_table or create_or_modify_table request with a
\* table or column identifier that fails the safe identifier pattern passes no
\* statement to the engine and is answered with an error.
C18_UnsafeIdentifierRejected ==
  \A r \in DOMAIN reqs :
    (\E id \in CallerIdentifiers(reqs[r]) : ~MatchesSafePattern(id)) =>
       /\ reqs[r].sent = <<>>
       /\ (Done(r) => AnsweredFailure(r))

\* C19: no operation retries.  A request passes the engine no statement
\* twice, and no more statements than its operation has (two for
\* create_or_modify_table, one for the others); when the engine rejects a
\* statement the request is answered in that step, and the error field of the
\* response is exactly the message of the error the engine threw.
C19_NoRetryVerbatimError ==
  \A r \in DOMAIN reqs :
    LET q == reqs[r]
    IN /\ \A i, j \in DOMAIN q.sent : i # j => q.sent[i] # q.sent[j]
       /\ Len(q.sent) <= (IF q.name = "create_or_modify_table" THEN 2 ELSE 1)
       /\ (q.rejected # "" =>
             /\ Done(r)
             /\ Cardinality(ResponsesTo(r)) = 1
             /\ ~ResponseTo(r).isError
             /\ DOMAIN ResponseTo(r).text = {"success", "error"}
             /\ ResponseTo(r).text.success = FALSE
             /\ ResponseTo(r).text.error = q.rejected)

\* The engine has rejected the CREATE of a create_or_modify_table, after
\* accepting its DROP, and the statement of an execute; both requests were
\* answered with the engine's message.
C19_Witness ==
  /\ Len(reqs) = 2
  /\ \E r \in DOMAIN reqs :
       /\ reqs[r].name = "create_or_modify_table"
       /\ Len(reqs[r].sent) = 2
       /\ reqs[r].rejected = EngineError
       /\ ResponseTo(r).text.error = EngineError
  /\ \E r \in DOMAIN reqs :
       /\ reqs[r].name = "execute"
       /\ Len(reqs[r].sent) = 1
       /\ reqs[r].rejected = EngineError
       /\ ResponseTo(r).text.error = EngineError

\* C20 as stated: when the process ends on SIGINT or SIGTERM while a pool
\* exists, the pool has been closed first: it never exits on a termination
\* signal with a pool still open.
C20_PoolClosedBeforeSignalExit ==
  (exitBy = "signal" /\ pool # 0) =>
     /\ pools[pool].ended
     /\ LivePools = {}

\* C21: in every launcher a SIGINT or SIGTERM that reaches the launcher
\* while its child runs is sent on to the child as the same signal, and a
\* launcher that has exited because the child was killed by that signal has
\* a non-zero exit code.
C21_SignalForwardedAndExitNonZero ==
  launcher.kind \in Launchers =>
    /\ \A i \in DOMAIN launcher.forwarded :
         \E j \in DOMAIN launcher.received : launcher.forwarded[i] = launcher.received[j]
    /\ (launcher.exited /\ launcher.child = "gone"
        /\ launcher.status.signal \in Signals) => launcher.exitCode # 0

\* C22: in every launcher, while the child runs, the chunks that have
\* arrived on the launcher's stdin are the chunks written to the child's
\* stdin, all of them and in the same order.
C22_StdinReachesChild ==
  (launcher.kind \in Launchers /\ launcher.child = "running")
    => launcher.childStdin = launcher.arrived

\* C23: nothing the child wrote to its stderr is written to the launcher's
\* stdout, and nothing the child wrote to its stdout is written to the
\* launcher's stderr.
C23_StreamsKeptApart ==
  launcher.kind \in Launchers =>
    /\ \A i \in DOMAIN launcher.out : launcher.out[i].from # "child.stderr"
    /\ \A i \in DOMAIN launcher.err : launcher.err[i].from # "child.stdout"
    /\ Len(SelectSeq(launcher.out, LAMBDA w : w.from = "child.stdout"))
         <= Len(launcher.childOut)
    /\ (launcher.kind # "part_001" =>
         Len(SelectSeq(launcher.err, LAMBDA w : w.from = "child.stderr"))
           = Len(launcher.childErr))

\* The child has written to both streams and the launcher has passed both on.
C23_Witness ==
  /\ launcher.kind = "index.js"
  /\ \E i \in DOMAIN launcher.out : launcher.out[i].from = "child.stdout"
  /\ \E i \in DOMAIN launcher.err : launcher.err[i].from = "child.stderr"

\* C26: once a launcher has received SIGINT or SIGTERM and its child has
\* ended, the launcher has exited.
C26_ExitsAfterSignal ==
  (launcher.kind \in Launchers /\ launcher.received # <<>> /\ launcher.child = "gone")
    => launcher.exited

\* C27: index.js spawns the server only after detecting Python and after
\* the requirements install has exited with code 0, in that order; when
\* detection fails, requirements.txt is missing or the install exits
\* non-zero, the launcher exits with code 1 and never spawns the server.
C27_StartupOrder ==
  launcher.kind = "index.js" =>
    /\ launcher.child # "none" =>
         /\ launcher.steps = <<"detect", "install", "start", "spawn">>
         /\ launcher.installCode = 0
         /\ Len(launcher.settled) = 1 /\ launcher.settled[1].how = "resolve"
    /\ (\/ \E i \in DOMAIN launcher.settled : launcher.settled[i].how = "reject"
        \/ launcher.failure = "requirements"
        \/ launcher.installCode \notin {Null, 0})
         => /\ launcher.exited
            /\ launcher.exitCode = 1
            /\ launcher.child = "none"

\* The install has failed and the launcher has exited.
C27_Witness ==
  /\ launcher.kind = "index.js"
  /\ launcher.installCode = 1
  /\ launcher.exited

\* C28: getPythonCommand resolves 'python3' whenever the python3 probe
\* succeeds, resolves 'python' only when the python3 probe has failed and
\* the python probe succeeds, rejects when both fail, and never settles
\* more than once.
C28_GetPythonCommand ==
  launcher.kind = "index.js" =>
    LET Tried(cmd, error) ==
          \E i \in DOMAIN launcher.probed : launcher.probed[i] = [cmd |-> cmd, error |-> error]
        resolved(cmd) == launcher.settled = <<[how |-> "resolve", value |-> cmd]>>
    IN /\ Len(launcher.settled) <= 1
       /\ Tried("python3", FALSE) => resolved("python3")
       /\ (Tried("python3", TRUE) /\ Tried("python", FALSE)) => resolved("python")
       /\ resolved("python") => (Tried("python3", TRUE) /\ Tried("python", FALSE))
       /\ (Tried("python3", TRUE) /\ Tried("python", TRUE))
            => launcher.settled = <<[how |-> "reject", value |-> ""]>>
       /\ (launcher.settled = <<>>) =>
            (~Tried("python3", FALSE) /\ ~Tried("python", FALSE) /\ ~Tried("python", TRUE))

\* python3 was not found, python was, and the launcher went on with it.
C28_Witness ==
  /\ launcher.kind = "index.js"
  /\ launcher.settled = <<[how |-> "resolve", value |-> "python"]>>
  /\ launcher.pc = "run"

\* C30: the handler performs the ensure-connected step before it looks up
\* the tool name: a request naming an unknown tool that arrived with no pool
\* and complete environment credentials is answered only by a step that
\* finds its auto-connect attempt made and over.
C30_EnsureConnectedBeforeLookup ==
  [][\A r \in DOMAIN reqs' :
       (/\ reqs'[r].name \notin ToolNames
        /\ reqs'[r].poolAtStart = 0
        /\ Complete(getConfigFromEnv)
        /\ \E i \in DOMAIN responses' : responses'[i].id = r
        /\ ~\E i \in DOMAIN responses : responses[i].id = r)
         => /\ r \in DOMAIN reqs
            /\ reqs[r].envAttempts = 1
            /\ reqs[r].pc = "ac_ret"
            /\ reqs'[r].pc = "done"]_vars

\* An unknown tool arrived with no pool, its auto-connect attempt created and
\* tested a pool, and it was then answered with the unknown-tool error.
C30_Witness ==
  \E r \in DOMAIN reqs :
    /\ reqs[r].name \notin ToolNames
    /\ reqs[r].poolAtStart = 0
    /\ reqs[r].cpPool # 0
    /\ pools[reqs[r].cpPool].tested
    /\ reqs[r].pc = "done"
    /\ \E i \in DOMAIN responses :
         /\ responses[i].id = r
         /\ responses[i].envelope = CatchEnvelope(UnknownToolMessage(reqs[r].name))

\* C25: the pool never has more than 10 sessions checked out; a caller that
\* asks while 10 are out is queued, whatever the length of the queue, and
\* never rejected; and when a session is released while callers wait, the
\* first of them obtains it.
C25_TenSessionsUnboundedQueue ==
  /\ [](sessions.asked > 0 =>
          /\ Cardinality(sessions.holding) <= 10
          /\ sessions.rejected = {}
          /\ (sessions.queue # <<>> => Cardinality(sessions.holding) = 10)
          /\ Cardinality(sessions.holding) + Len(sessions.queue) + sessions.released
               = sessions.asked)
  /\ [][(sessions.asked > 0 /\ sessions'.released > sessions.released
         /\ sessions.queue # <<>>)
          => /\ Head(sessions.queue) \in sessions'.holding
             /\ sessions'.queue = Tail(sessions.queue)]_vars

\* Two callers have waited behind ten checked-out sessions, and the first
\* of them has obtained a session that was released.
C25_Witness ==
  /\ sessions.asked > 0
  /\ Cardinality(sessions.waited) >= 2
  /\ sessions.waited \cap sessions.holding # {}

\* C29: in the connectDb variant a call that finds a pool creates its own
\* only after the old pool's end() has finished, and once the calls have
\* returned at most one pool that has not been ended exists.
C29_AtMostOneLivePool ==
  variant.pc = "run" =>
    /\ \A c \in DOMAIN variant.calls :
         (variant.calls[c].found # 0 /\ variant.calls[c].created # 0)
           => variant.pools[variant.calls[c].found].ended
    /\ (variant.calls # <<>>
        /\ \A c \in DOMAIN variant.calls : variant.calls[c].pc = "returned")
         => Cardinality({p \in DOMAIN variant.pools : ~variant.pools[p].ended}) <= 1

\* The pool connect_db creates is built from the call's arguments alone.
ArgumentsFirst ==
  (handed.pc # "none" /\ Complete(handed.args)) =>
     \A f \in Fields : handed.poolConfig[f] = handed.args[f]

\* The value run.js derives for field f from the process environment alone.
EnvironmentValue(f) == RunEnv(handed.processEnv).DB[f]

BothExist(f) ==
  /\ handed.pc = "spawned"
  /\ handed.config.given
  /\ handed.config.values[f] # ""
  /\ EnvironmentValue(f) # ""

Holders(p) == {r \in DOMAIN reqs : reqs[r].held /\ reqs[r].opPool = p}

\* C31: every session an operation acquires is released exactly once on
\* every exit path: the sessions checked out of a pool are those of the
\* operations still holding one, an operation that has returned holds none,
\* and whenever no operation is in flight no session is checked out.
C31_SessionsReleased ==
  /\ \A p \in DOMAIN pools : pools[p].out = Cardinality(Holders(p))
  /\ \A r \in DOMAIN reqs : reqs[r].pc = "done" => ~reqs[r].held
  /\ (\A r \in DOMAIN reqs : reqs[r].pc = "done")
       => \A p \in DOMAIN pools : pools[p].out = 0

\* One operation has failed at its statement and another has succeeded,
\* both after acquiring a session, and nothing is in flight.
C31_Witness ==
  /\ Len(reqs) = 2
  /\ \A r \in DOMAIN reqs :
       reqs[r].pc = "done" /\ reqs[r].sent # <<>> /\ reqs[r].opPool # 0
  /\ reqs[1].rejected # ""
  /\ reqs[2].rejected = "" /\ reqs[2].result.success

\* A connection attempt with complete credentials was made before request r
\* arrived: by startServer, by an earlier request's auto-connect, or by an
\* earlier connect_db.
AttemptBefore(r) ==
  \/ reqs[r].envAttemptsBefore > 0
  \/ \E k \in 1..(r - 1) :
       reqs[k].name = "connect_db" /\ ~LacksCredential(reqs[k].arguments)

AnsweredNotConnected(r) ==
  /\ reqs[r].pc = "done"
  /\ "error" \in DOMAIN reqs[r].result
  /\ reqs[r].result.error = "Database not connected"

\* C32 as stated: once `pool` has been set to a pool it is never null again,
\* and a request that arrives after a connection attempt with complete
\* credentials triggers no auto-connect and is not answered "Database not
\* connected".
C32_NoAutoConnectAfterAttempt ==
  /\ [][pool # 0 => pool' # 0]_vars
  /\ [](\A r \in DOMAIN reqs :
          AttemptBefore(r) => (reqs[r].envAttempts = 0 /\ ~AnsweredNotConnected(r)))

\* C32 as amended: once `pool` has been set to a pool it is never null
\* again, and a request that arrives after a connection attempt with
\* complete credentials in which mysql.createPool returned a pool triggers
\* no auto-connect and is not answered "Database not connected".
C32_NoAutoConnectAfterPool ==
  /\ [][pool # 0 => pool' # 0]_vars
  /\ [](\A r \in DOMAIN reqs :
          (\E p \in DOMAIN pools : pools[p].by < r)
            => (reqs[r].envAttempts = 0 /\ ~AnsweredNotConnected(r)))

\* A statement operation arrived after an attempt whose pool failed its
\* liveness check, and was answered with the connection error.
C32_Witness ==
  \E r \in DOMAIN reqs :
    /\ reqs[r].name \in StatementTools
    /\ reqs[r].poolAtStart # 0
    /\ ~pools[reqs[r].poolAtStart].tested
    /\ startup = "done"
    /\ reqs[r].pc = "done"
    /\ reqs[r].envAttempts = 0
    /\ "error" \in DOMAIN reqs[r].result

\* C33: whenever dbConfig is set and no connect is under way (after any
\* sequence of successful and failed connects), the current pool was built
\* from exactly that configuration.
C33_ConfigMatchesPool ==
  (/\ dbConfig # NoConfig
   /\ startup # "cp_wait"
   /\ \A r \in DOMAIN reqs : reqs[r].pc = "done")
    => (pool # 0 /\ pools[pool].config = dbConfig)

\* Request r is a create_or_modify_table whose DROP has succeeded and which
\* this step ends with a failure of what follows the DROP: the CREATE is
\* rejected, or the column list cannot be built.
FailsAfterDrop(r) ==
  /\ r \in DOMAIN reqs
  /\ reqs[r].name = "create_or_modify_table"
  /\ reqs'[r].pc = "done"
  /\ \/ reqs[r].pc = "op_create"
     \/ reqs[r].pc = "op_drop" /\ reqs'[r].result.error = "columns is not iterable"

EnvironmentPools ==
  {p \in DOMAIN pools : pools[p].by = 0 \/ reqs[pools[p].by].name # "connect_db"}

\* C35: however the startup connect and the non-connect requests overlap,
\* at most one pool is ever built from the environment's credentials.
C35_OneEnvironmentPool == Cardinality(EnvironmentPools) <= 1

\* Two non-connect requests were in progress at once; no pool existed when
\* the first arrived, its auto-connect built one, and the second, arriving
\* before that auto-connect was over, built none.
C35_Witness ==
  /\ Len(reqs) = 2
  /\ overlapped
  /\ Complete(getConfigFromEnv)
  /\ reqs[1].name # "connect_db" /\ reqs[2].name # "connect_db"
  /\ reqs[1].poolAtStart = 0
  /\ reqs[1].cpPool # 0
  /\ reqs[1].pc = "ac_wait"
  /\ reqs[2].envAttempts = 0
  /\ Cardinality(EnvironmentPools) = 1

\* C36: in run.js (and part_000, which has the same handlers) the launcher
\* exits with the child's code when the child exited with a code and no
\* signal, with code 1 when the child was killed by a signal, and with code
\* 1 when the child could not be spawned.
C36_ExitCodeMapping ==
  launcher.kind \in {"run.js", "part_000"} =>
    /\ (launcher.child = "gone" /\ launcher.status.signal = "")
         => (launcher.exited /\ launcher.exitCode = launcher.status.code)
    /\ (launcher.child = "gone" /\ launcher.status.signal # "")
         => (launcher.exited /\ launcher.exitCode = 1)
    /\ launcher.child = "failed" => (launcher.exited /\ launcher.exitCode = 1)

\* The child of run.js has exited with code 2, and so has run.js.
C36_Witness ==
  /\ launcher.kind = "run.js"
  /\ launcher.child = "gone"
  /\ launcher.status = [code |-> 2, signal |-> ""]
  /\ launcher.exitCode = 2

\* C37: in every launcher, once the child process has ended (with any
\* code or by a signal) the launcher has terminated.
C37_NoLauncherWithoutChild ==
  (launcher.kind \in Launchers /\ launcher.child = "gone") => launcher.exited

\* C38: everything index.js writes to its standard output was produced by
\* the child server's stdout.
C38_OnlyChildOutputOnStdout ==
  launcher.kind = "index.js" =>
    \A i \in DOMAIN launcher.out : launcher.out[i].from = "child.stdout"

\* The characters of a sequence of chunks, in order.
RECURSIVE Characters(_)
Characters(chunks) ==
  IF chunks = <<>> THEN <<>> ELSE Head(chunks) \o Characters(Tail(chunks))

\* C39: in the line-buffering launcher (part_001), once the child has
\* ended, the characters written to the launcher's stdout are those the
\* child wrote to its stdout, all of them and in the same order.
C39_AllOutputForwarded ==
  (launcher.kind = "part_001" /\ launcher.child = "gone") =>
    Characters([i \in DOMAIN launcher.out |-> launcher.out[i].data])
      = Characters(launcher.childOut)


====
